---- MODULE Spec2Model ----
(***************************************************************************)
(* Model of the hyper microservice of src/src/main.rs: one shared          *)
(* Mutex<Slab<UserData>> and the request handler microservice_handler,     *)
(* which classifies (method, path) with three regular expressions and      *)
(* runs one slab operation under the lock.                                 *)
(*                                                                         *)
(* Text (paths, response bodies) is a sequence of one-character strings.   *)
(* usize is taken to be 64 bits wide, so `x as usize` keeps a parsed u64.  *)
(***************************************************************************)
EXTENDS Integers, Sequences, FiniteSets, TLC

VARIABLES
    users,      \* the Slab<UserData> behind the mutex: entries, len, next
    mutex,      \* the handler holding the MutexGuard, or None
    poisoned,   \* the mutex's poison flag (set by a panic under the lock)
    pc,         \* each handler's position
    req,        \* each handler's request (method, path), or None
    resp,       \* each handler's response (status, body), or None
    freed,      \* observer: removed ids not yet assigned again, newest first
    lastChange, \* observer: the last insert or remove the store performed
    scenario,   \* observer: how far the requests so far follow Scenario A
    hwm,        \* observer: the most records that were live at once so far
    serial      \* observer: the requests run whole, one by one, in lock order

vars ==
    <<users, mutex, poisoned, pc, req, resp, freed, lastChange, scenario, hwm,
      serial>>

None == "None"

\* Option<T>
Nothing == [some |-> FALSE]
Some(x) == [some |-> TRUE, val |-> x]

NoRequest == [method |-> None, path |-> <<>>]
NoResponse == [status |-> 0, body |-> <<>>]

\* At most MaxSlots records are live at once in the runs explored.
MaxSlots == 3

Handlers == {"h1", "h2"}

Methods == {"GET", "PUT", "POST", "DELETE", "PATCH"}

OK == 200
BAD_REQUEST == 400
NOT_FOUND == 404
METHOD_NOT_ALLOWED == 405

Min(S) == CHOOSE x \in S : \A y \in S : x <= y

(***************************************************************************)
(* Text                                                                    *)
(***************************************************************************)
AsciiDigits == <<"0", "1", "2", "3", "4", "5", "6", "7", "8", "9">>

\* A character of Unicode class Nd that is no ASCII digit (ARABIC-INDIC
\* DIGIT THREE); the regex crate's \d matches it, u64's FromStr does not.
ArabicIndicThree == "U+0663"

IsAsciiDigit(c) == \E i \in 1..10 : AsciiDigits[i] = c

DigitValue(c) == (CHOOSE i \in 1..10 : AsciiDigits[i] = c) - 1

\* \d of a regex compiled without Unicode support: [0-9].
IsRegexDigitAscii(c) == IsAsciiDigit(c)

\* \d of the regex crate (Unicode aware).
IsRegexDigit(c) == IsAsciiDigit(c) \/ c = ArabicIndicThree

RECURSIVE to_string(_)
\* usize::to_string: decimal text without leading zeros.
to_string(n) ==
    IF n < 10 THEN <<AsciiDigits[n + 1]>>
    ELSE to_string(n \div 10) \o <<AsciiDigits[(n % 10) + 1]>>

RECURSIVE join(_, _)
\* [String]::join(sep)
join(strs, sep) ==
    IF strs = <<>> THEN <<>>
    ELSE IF Len(strs) = 1 THEN strs[1]
    ELSE strs[1] \o sep \o join(Tail(strs), sep)

HasPrefix(s, p) == Len(s) >= Len(p) /\ SubSeq(s, 1, Len(p)) = p

RECURSIVE StripZeros(_)
StripZeros(s) ==
    IF Len(s) > 1 /\ s[1] = "0" THEN StripZeros(Tail(s)) ELSE s

RECURSIVE Decimal(_)
Decimal(s) ==
    IF s = <<>> THEN 0
    ELSE 10 * Decimal(SubSeq(s, 1, Len(s) - 1)) + DigitValue(s[Len(s)])

\* u64::MAX = 18446744073709551615 as text.
U64MaxText ==
    <<"1", "8", "4", "4", "6", "7", "4", "4", "0", "7", "3", "7", "0", "9",
      "5", "5", "1", "6", "1", "5">>

RECURSIVE TextLeq(_, _)
\* Numeric <= of two digit texts of equal length.
TextLeq(a, b) ==
    IF a = <<>> THEN TRUE
    ELSE IF a[1] # b[1] THEN DigitValue(a[1]) < DigitValue(b[1])
    ELSE TextLeq(Tail(a), Tail(b))

\* Stands for every u64 of ten or more digits: larger than any slab key of
\* the model, which is all the slab asks of it.
HugeId == 1000000000

\* str::parse::<UserId>().ok().map(|x| x as usize) on a non-empty text:
\* None on a character that is no ASCII digit and on overflow of u64.
parse_user_id(s) ==
    IF \E i \in 1..Len(s) : ~IsAsciiDigit(s[i]) THEN Nothing
    ELSE LET t == StripZeros(s) IN
         IF Len(t) > Len(U64MaxText) THEN Nothing
         ELSE IF Len(t) = Len(U64MaxText) /\ ~TextLeq(t, U64MaxText) THEN Nothing
         ELSE IF Len(t) >= 10 THEN Some(HugeId)
         ELSE Some(Decimal(t))

(***************************************************************************)
(* The three path patterns                                                 *)
(***************************************************************************)
IndexHtm == <<"i", "n", "d", "e", "x", ".", "h", "t", "m">>
UserPrefix == <<"/", "u", "s", "e", "r", "/">>
UsersText == <<"/", "u", "s", "e", "r", "s">>

\* The index pattern without its optional group: "^/$".
IndexPathRootOnly(path) == path = <<"/">>

\* Regex "^/(index\.html?)?$".is_match
INDEX_PATH(path) ==
    \/ path = <<"/">>
    \/ path = <<"/">> \o IndexHtm
    \/ path = <<"/">> \o IndexHtm \o <<"l">>

\* Regex "^/users/?$".is_match
USERS_PATH(path) ==
    \/ path = UsersText
    \/ path = UsersText \o <<"/">>

\* Regex "^/user/((?P<user_id>\d+?)/?)?$".captures: whether the path
\* matches and, when the group took part, the text of user_id.
USER_PATH(path) ==
    IF ~HasPrefix(path, UserPrefix) THEN [matched |-> FALSE, user_id |-> Nothing]
    ELSE LET rest == SubSeq(path, Len(UserPrefix) + 1, Len(path))
             digits == IF rest # <<>> /\ rest[Len(rest)] = "/"
                       THEN SubSeq(rest, 1, Len(rest) - 1)
                       ELSE rest
         IN  IF rest = <<>> THEN [matched |-> TRUE, user_id |-> Nothing]
             ELSE IF digits # <<>>
                     /\ \A i \in 1..Len(digits) : IsRegexDigit(digits[i])
                  THEN [matched |-> TRUE, user_id |-> Some(digits)]
                  ELSE [matched |-> FALSE, user_id |-> Nothing]

\* cap.name("user_id").and_then(|m| m.as_str().parse::<UserId>().ok()...)
UserIdOf(cap) ==
    IF cap.user_id.some THEN parse_user_id(cap.user_id.val) ELSE Nothing

(***************************************************************************)
(* Slab<UserData> (slab crate): a vector of Occupied / Vacant(next free)   *)
(* entries, the count of occupied ones, and the head of the free list.     *)
(* Keys count from 0; entries[k + 1] is the entry of key k.                *)
(***************************************************************************)
UserData == "UserData"

Occupied(v) == [tag |-> "Occupied", val |-> v, next |-> 0]
Vacant(n) == [tag |-> "Vacant", val |-> None, next |-> n]

\* Slab::new()
SlabNew == [entries |-> <<>>, len |-> 0, next |-> 0]

\* Slab::get / Slab::get_mut: Some(&value) of an occupied entry.
SlabGet(slab, key) ==
    IF key < Len(slab.entries) /\ slab.entries[key + 1].tag = "Occupied"
    THEN Some(slab.entries[key + 1].val)
    ELSE Nothing

\* Slab::contains that checks the key against the vector's length only.
SlabContainsInRange(slab, key) == key < Len(slab.entries)

\* Slab::contains
SlabContains(slab, key) ==
    key < Len(slab.entries) /\ slab.entries[key + 1].tag = "Occupied"

\* Slab::insert that never takes a vacant entry: it always pushes.
SlabInsertAlwaysPush(slab, val) ==
    LET key == Len(slab.entries) IN
    [key |-> key,
     slab |-> [entries |-> Append(slab.entries, Occupied(val)),
               len |-> slab.len + 1,
               next |-> key + 1]]

\* Slab::insert that takes the count of records for the next key.
SlabInsertAtLen(slab, val) ==
    LET key == slab.len IN
    [key |-> key,
     slab |-> [entries |-> IF key >= Len(slab.entries)
                           THEN Append(slab.entries, Occupied(val))
                           ELSE [slab.entries EXCEPT ![key + 1] = Occupied(val)],
               len |-> slab.len + 1,
               next |-> key + 1]]

\* Slab::insert that forgets the rest of the free list when it reuses a slot.
SlabInsertNoRelink(slab, val) ==
    LET key == slab.next IN
    [key |-> key,
     slab |-> [entries |-> IF key = Len(slab.entries)
                           THEN Append(slab.entries, Occupied(val))
                           ELSE [slab.entries EXCEPT ![key + 1] = Occupied(val)],
               len |-> slab.len + 1,
               next |-> Len(slab.entries) + (IF key = Len(slab.entries) THEN 1 ELSE 0)]]

\* Slab::insert: the key is the head of the free list; a key equal to
\* the vector's length pushes a new entry, any other key takes over a
\* vacant entry and makes the entry that one pointed to the new head.
SlabInsert(slab, val) ==
    LET key == slab.next IN
    IF key = Len(slab.entries)
    THEN [key |-> key,
          slab |-> [entries |-> Append(slab.entries, Occupied(val)),
                    len |-> slab.len + 1,
                    next |-> key + 1]]
    ELSE [key |-> key,
          slab |-> [entries |-> [slab.entries EXCEPT ![key + 1] = Occupied(val)],
                    len |-> slab.len + 1,
                    next |-> slab.entries[key + 1].next]]

\* Slab::remove in the manner of Vec::swap_remove: the last entry takes the
\* place of the removed one.
SlabRemoveSwap(slab, key) ==
    IF key < Len(slab.entries) /\ slab.entries[key + 1].tag = "Occupied"
    THEN LET last == Len(slab.entries) IN
         [panic |-> FALSE,
          slab |-> [entries |-> SubSeq([slab.entries EXCEPT ![key + 1] =
                                            slab.entries[last]], 1, last - 1),
                    len |-> slab.len - 1,
                    next |-> Min({slab.next, last - 1})]]
    ELSE [panic |-> TRUE, slab |-> slab]

\* Slab::remove that does not make the key the head of the free list.
SlabRemoveNoPush(slab, key) ==
    IF key < Len(slab.entries) /\ slab.entries[key + 1].tag = "Occupied"
    THEN [panic |-> FALSE,
          slab |-> [entries |-> [slab.entries EXCEPT ![key + 1] = Vacant(slab.next)],
                    len |-> slab.len - 1,
                    next |-> slab.next]]
    ELSE [panic |-> TRUE, slab |-> slab]

\* Slab::remove: the entry becomes Vacant(old head) and the key the new
\* head; panics ("invalid key") on a key that is not occupied.
SlabRemove(slab, key) ==
    IF key < Len(slab.entries) /\ slab.entries[key + 1].tag = "Occupied"
    THEN [panic |-> FALSE,
          slab |-> [entries |-> [slab.entries EXCEPT ![key + 1] = Vacant(slab.next)],
                    len |-> slab.len - 1,
                    next |-> key]]
    ELSE [panic |-> TRUE, slab |-> slab]

\* *user = UserData through the reference get_mut returned.
SlabSet(slab, key, val) ==
    [slab EXCEPT !.entries[key + 1] = Occupied(val)]

\* Slab::iter that does not skip the vacant entries.
SlabKeysAll(slab) == [j \in 1..Len(slab.entries) |-> j - 1]

\* Slab::iter: the occupied entries' keys in index order.
SlabKeys(slab) ==
    LET occ == SelectSeq([i \in 1..Len(slab.entries) |-> i],
                         LAMBDA i : slab.entries[i].tag = "Occupied")
    IN  [j \in 1..Len(occ) |-> occ[j] - 1]

\* The live ids: the keys of the occupied entries.
Live(slab) == {k \in 0..(Len(slab.entries) - 1) : slab.entries[k + 1].tag = "Occupied"}

(***************************************************************************)
(* Responses                                                               *)
(***************************************************************************)
\* const INDEX: the landing page, one opaque piece of text.
INDEX == <<"<!doctype html>">>

\* impl fmt::Display for UserData
UserDataText == <<"{", "}">>

\* Response::new(body): status 200.
ResponseNew(body) == [status |-> OK, body |-> body]

\* response_with_code: the status and an empty body.
response_with_code(status_code) == [status |-> status_code, body |-> <<>>]

Outcome(response, slab) == [response |-> response, users |-> slab, panic |-> FALSE]
Panic(slab) == [response |-> NoResponse, users |-> slab, panic |-> TRUE]

\* users.iter().map(|(id, _)| id.to_string()).collect().join(",")
ListBody(slab) ==
    LET keys == SlabKeys(slab) IN
    join([j \in 1..Len(keys) |-> to_string(keys[j])], <<",">>)

\* The GET arm that takes the record out of the store as it reads it.
GetUserTake(slab, id) ==
    IF SlabGet(slab, id).some
    THEN Outcome(ResponseNew(UserDataText), SlabRemove(slab, id).slab)
    ELSE Outcome(response_with_code(NOT_FOUND), slab)

\* (&Method::GET, Some(id))
GetUser(slab, id) ==
    IF SlabGet(slab, id).some
    THEN Outcome(ResponseNew(UserDataText), slab)
    ELSE Outcome(response_with_code(NOT_FOUND), slab)

\* (&Method::PUT, Some(id))
PutUser(slab, id) ==
    IF SlabGet(slab, id).some
    THEN Outcome(response_with_code(OK), SlabSet(slab, id, UserData))
    ELSE Outcome(response_with_code(NOT_FOUND), slab)

\* The POST arm answering with the number of records instead of the key.
PostUserLen(slab) ==
    LET ins == SlabInsert(slab, UserData) IN
    Outcome(ResponseNew(to_string(ins.slab.len)), ins.slab)

\* (&Method::POST, None)
PostUser(slab) ==
    LET ins == SlabInsert(slab, UserData) IN
    Outcome(ResponseNew(to_string(ins.key)), ins.slab)

\* The DELETE arm without the contains check.
DeleteUserUnchecked(slab, id) ==
    LET rem == SlabRemove(slab, id) IN
    IF rem.panic THEN Panic(slab)
    ELSE Outcome(response_with_code(OK), rem.slab)

\* (&Method::DELETE, Some(id))
DeleteUser(slab, id) ==
    IF SlabContains(slab, id)
    THEN LET rem == SlabRemove(slab, id) IN
         IF rem.panic THEN Panic(slab)
         ELSE Outcome(response_with_code(OK), rem.slab)
    ELSE Outcome(response_with_code(NOT_FOUND), slab)

\* The match with the arms of the item path without an id answering 404,
\* and the POST arms merged.
UserArmLoose(method, user_id, slab) ==
    IF method = "GET" /\ user_id.some THEN GetUser(slab, user_id.val)
    ELSE IF method = "PUT" /\ user_id.some THEN PutUser(slab, user_id.val)
    ELSE IF method = "POST" THEN PostUser(slab)
    ELSE IF method = "DELETE" /\ user_id.some THEN DeleteUser(slab, user_id.val)
    ELSE IF method \in {"GET", "PUT", "DELETE"}
         THEN Outcome(response_with_code(NOT_FOUND), slab)
    ELSE Outcome(response_with_code(METHOD_NOT_ALLOWED), slab)

\* match (method, user_id) of the item path
UserArm(method, user_id, slab) ==
    IF method = "GET" /\ user_id.some THEN GetUser(slab, user_id.val)
    ELSE IF method = "PUT" /\ user_id.some THEN PutUser(slab, user_id.val)
    ELSE IF method = "POST" /\ ~user_id.some THEN PostUser(slab)
    ELSE IF method = "POST" /\ user_id.some
         THEN Outcome(response_with_code(BAD_REQUEST), slab)
    ELSE IF method = "DELETE" /\ user_id.some THEN DeleteUser(slab, user_id.val)
    ELSE Outcome(response_with_code(METHOD_NOT_ALLOWED), slab)

\* The handler with the collection path answering 404 to other verbs.
microservice_handler_404(method, path, slab) ==
    IF INDEX_PATH(path)
    THEN IF method = "GET" THEN Outcome(ResponseNew(INDEX), slab)
         ELSE Outcome(response_with_code(METHOD_NOT_ALLOWED), slab)
    ELSE IF USERS_PATH(path)
    THEN IF method = "GET" THEN Outcome(ResponseNew(ListBody(slab)), slab)
         ELSE Outcome(response_with_code(NOT_FOUND), slab)
    ELSE IF USER_PATH(path).matched
    THEN UserArm(method, UserIdOf(USER_PATH(path)), slab)
    ELSE Outcome(response_with_code(NOT_FOUND), slab)

\* The block of microservice_handler that runs under the lock: the
\* response and the slab it leaves, or a panic.
microservice_handler(method, path, slab) ==
    IF INDEX_PATH(path)
    THEN IF method = "GET" THEN Outcome(ResponseNew(INDEX), slab)
         ELSE Outcome(response_with_code(METHOD_NOT_ALLOWED), slab)
    ELSE IF USERS_PATH(path)
    THEN IF method = "GET" THEN Outcome(ResponseNew(ListBody(slab)), slab)
         ELSE Outcome(response_with_code(METHOD_NOT_ALLOWED), slab)
    ELSE IF USER_PATH(path).matched
    THEN UserArm(method, UserIdOf(USER_PATH(path)), slab)
    ELSE Outcome(response_with_code(NOT_FOUND), slab)

(***************************************************************************)
(* The requests explored                                                   *)
(***************************************************************************)
ItemPath(id) == UserPrefix \o to_string(id)

\* Twenty-one digits: past u64::MAX.
TooManyDigits == [i \in 1..21 |-> "9"]

\* 4294967296, a u64 no slab of the model reaches.
TenDigits == <<"4", "2", "9", "4", "9", "6", "7", "2", "9", "6">>

Paths ==
    {<<"/">>, <<"/">> \o IndexHtm, <<"/">> \o IndexHtm \o <<"l">>,
     <<"/", "i", "n", "d", "e", "x">>,
     UsersText, UsersText \o <<"/">>,
     UserPrefix,
     ItemPath(1) \o <<"/">>,
     UserPrefix \o <<"0", "1">>,
     UserPrefix \o <<"x">>,
     UserPrefix \o <<ArabicIndicThree>>,
     UserPrefix \o TooManyDigits,
     UserPrefix \o TenDigits,
     <<"/", "o", "t", "h", "e", "r">>}
    \cup {ItemPath(id) : id \in 0..MaxSlots}

Requests == [method : Methods, path : Paths]

\* A request that takes the (&Method::POST, None) arm.
IsInsert(r) ==
    /\ r.method = "POST"
    /\ ~INDEX_PATH(r.path) /\ ~USERS_PATH(r.path)
    /\ USER_PATH(r.path).matched
    /\ ~UserIdOf(USER_PATH(r.path)).some

PendingInserts ==
    Cardinality({h \in Handlers : pc[h] \in {"lock", "cs"} /\ IsInsert(req[h])})

(***************************************************************************)
(* Observers                                                               *)
(***************************************************************************)
Post == [method |-> "POST", path |-> UserPrefix]

\* Scenario A of the specification: the requests, in order.
ScenarioA ==
    <<Post, Post, [method |-> "DELETE", path |-> ItemPath(0)], Post,
      [method |-> "GET", path |-> UsersText]>>

ScenarioStep(r) ==
    IF scenario >= 0 /\ scenario < Len(ScenarioA) /\ r = ScenarioA[scenario + 1]
    THEN scenario + 1
    ELSE -1

NoChange == [op |-> "none", id |-> 0, lowest |-> FALSE]

\* k is the lowest live id and no slot below it is free.
LowestLive(slab, k) ==
    /\ k \in Live(slab)
    /\ k = Min(Live(slab))
    /\ \A j \in 0..(k - 1) : j \in Live(slab)

Observe(before, after) ==
    LET inserted == Live(after) \ Live(before)
        removed == Live(before) \ Live(after)
    IN  /\ hwm' = IF Cardinality(Live(after)) > hwm
                  THEN Cardinality(Live(after))
                  ELSE hwm
        /\ IF removed # {}
           THEN LET k == CHOOSE x \in removed : TRUE IN
                /\ freed' = <<k>> \o freed
                /\ lastChange' = [op |-> "remove", id |-> k,
                                  lowest |-> LowestLive(before, k)]
           ELSE IF inserted # {}
           THEN LET k == CHOOSE x \in inserted : TRUE IN
                /\ freed' = SelectSeq(freed, LAMBDA x : x # k)
                /\ lastChange' = [op |-> "insert", id |-> k, lowest |-> FALSE]
           ELSE UNCHANGED <<freed, lastChange>>

(***************************************************************************)
(* The handler's steps                                                     *)
(***************************************************************************)
Init ==
    /\ users = SlabNew
    /\ mutex = None
    /\ poisoned = FALSE
    /\ pc = [h \in Handlers |-> "idle"]
    /\ req = [h \in Handlers |-> NoRequest]
    /\ resp = [h \in Handlers |-> NoResponse]
    /\ freed = <<>>
    /\ lastChange = NoChange
    /\ scenario = 0
    /\ hwm = 0
    /\ serial = [users |-> SlabNew, resp |-> [h \in Handlers |-> NoResponse]]

\* hyper calls microservice_handler(req, &user_db): method and path are read.
Request(h, r) ==
    /\ pc[h] = "idle"
    /\ IsInsert(r) => Cardinality(Live(users)) + PendingInserts < MaxSlots
    /\ pc' = [pc EXCEPT ![h] = "lock"]
    /\ req' = [req EXCEPT ![h] = r]
    /\ UNCHANGED <<users, mutex, poisoned, resp, freed, lastChange, scenario,
                   hwm, serial>>

\* The observer runs h's request whole on its own copy of the slab, at the
\* moment h gets the lock.
SerialStep(h) ==
    CHOOSE s \in {[users |-> out.users,
                   resp |-> [serial.resp EXCEPT ![h] = out.response]] :
                     out \in {microservice_handler(req[h].method, req[h].path,
                                                   serial.users)}} : TRUE

\* A lock that does not wait for the guard to be dropped.
LockNoWait(h) ==
    /\ pc[h] = "lock"
    /\ IF poisoned
       THEN /\ pc' = [pc EXCEPT ![h] = "panicked"]
            /\ UNCHANGED <<mutex, serial>>
       ELSE /\ pc' = [pc EXCEPT ![h] = "cs"]
            /\ mutex' = h
            /\ serial' = SerialStep(h)
    /\ UNCHANGED <<users, poisoned, req, resp, freed, lastChange, scenario, hwm>>

\* user_db.lock().unwrap(): blocks while another handler holds the guard;
\* panics on a poisoned mutex.
Lock(h) ==
    /\ pc[h] = "lock"
    /\ mutex = None
    /\ IF poisoned
       THEN /\ pc' = [pc EXCEPT ![h] = "panicked"]
            /\ UNCHANGED <<mutex, serial>>
       ELSE /\ pc' = [pc EXCEPT ![h] = "cs"]
            /\ mutex' = h
            /\ serial' = SerialStep(h)
    /\ UNCHANGED <<users, poisoned, req, resp, freed, lastChange, scenario, hwm>>

\* The dispatch under the lock; the guard is dropped at the end of the
\* block (while unwinding, on a panic, which poisons the mutex).
Dispatch(h) ==
    /\ pc[h] = "cs"
    /\ mutex = h
    /\ \E out \in {microservice_handler(req[h].method, req[h].path, users)} :
       /\ users' = out.users
       /\ mutex' = None
       /\ poisoned' = out.panic
       /\ pc' = [pc EXCEPT ![h] = IF out.panic THEN "panicked" ELSE "done"]
       /\ resp' = [resp EXCEPT ![h] = out.response]
       /\ Observe(users, out.users)
    /\ scenario' = ScenarioStep(req[h])
    /\ UNCHANGED <<req, serial>>

\* future::ok(response): the response goes out and the handler is free.
Return(h) ==
    /\ pc[h] = "done"
    /\ pc' = [pc EXCEPT ![h] = "idle"]
    /\ req' = [req EXCEPT ![h] = NoRequest]
    /\ resp' = [resp EXCEPT ![h] = NoResponse]
    /\ serial' = [serial EXCEPT !.resp[h] = NoResponse]
    /\ UNCHANGED <<users, mutex, poisoned, freed, lastChange, scenario, hwm>>

\* Requests served one after another by one handler.
SerialHandlers == {"h1"}

Next ==
    \/ \E h \in SerialHandlers, r \in Requests : Request(h, r)
    \/ \E h \in SerialHandlers : Lock(h)
    \/ \E h \in SerialHandlers : Dispatch(h)
    \/ \E h \in SerialHandlers : Return(h)

Spec == Init /\ [][Next]_vars

\* Handlers running concurrently, as hyper's runtime runs them, on the
\* requests that reach the store.
ConcRequests ==
    {Post,
     [method |-> "DELETE", path |-> ItemPath(0)],
     [method |-> "DELETE", path |-> ItemPath(1)],
     [method |-> "PUT", path |-> ItemPath(0)],
     [method |-> "GET", path |-> UsersText]}

ConcNext ==
    \/ \E h \in Handlers, r \in ConcRequests : Request(h, r)
    \/ \E h \in Handlers : Lock(h)
    \/ \E h \in Handlers : Dispatch(h)
    \/ \E h \in Handlers : Return(h)

ConcSpec == Init /\ [][ConcNext]_vars

(***************************************************************************)
(* Vocabulary of the properties                                            *)
(***************************************************************************)
\* Handler h runs its dispatch in this step.
Served(h) == pc[h] = "cs" /\ pc'[h] # "cs"

\* The request is on the item path (with or without an id).
IsItem(r) == ~INDEX_PATH(r.path) /\ ~USERS_PATH(r.path) /\ USER_PATH(r.path).matched

\* The request is on the item path and carries id k.
HasId(r, k) ==
    /\ IsItem(r)
    /\ UserIdOf(USER_PATH(r.path)).some
    /\ UserIdOf(USER_PATH(r.path)).val = k

CarriesId(r) == IsItem(r) /\ UserIdOf(USER_PATH(r.path)).some

Unrecognized(r) == ~INDEX_PATH(r.path) /\ ~USERS_PATH(r.path) /\ ~USER_PATH(r.path).matched

\* The ids that are not live: freed slots and the next never-used index.
FreeIds(slab) == (0..Len(slab.entries)) \ Live(slab)

RECURSIVE Ascending(_)
\* The ids of a set in ascending order.
Ascending(S) ==
    IF S = {} THEN <<>> ELSE <<Min(S)>> \o Ascending(S \ {Min(S)})

\* The text of a list of ids: decimal, comma separated.
IdListText(ids) == join([j \in 1..Len(ids) |-> to_string(ids[j])], <<",">>)

(***************************************************************************)
(* C1                                                                      *)
(***************************************************************************)
\* C1 as stated: a POST /user/ assigns the lowest-numbered id that is not
\* live (the minimum over the freed slots and the next never-used index).
C1_LowestFree ==
    [][\A h \in Handlers :
        (Served(h) /\ IsInsert(req[h]))
            => resp'[h] = ResponseNew(to_string(Min(FreeIds(users))))]_vars

\* C1 amended: a POST /user/ assigns an id that is not live: the most
\* recently freed id that has not been assigned again, when there is
\* one, and the next never-used index otherwise.
C1_NewestFreed ==
    [][\A h \in Handlers :
        (Served(h) /\ IsInsert(req[h]))
            => LET k == IF freed # <<>> THEN Head(freed) ELSE Len(users.entries)
               IN  /\ resp'[h] = ResponseNew(to_string(k))
                   /\ k \in FreeIds(users)
                   /\ k \in Live(users')]_vars

\* Two ids were free, freed in ascending order, and the POST got the
\* later freed, higher one.
C1_Witness ==
    \E h \in Handlers :
        /\ pc[h] = "done"
        /\ IsInsert(req[h])
        /\ resp[h] = ResponseNew(<<"1">>)
        /\ freed = <<0>>
        /\ Live(users) = {1, 2}

(***************************************************************************)
(* C2                                                                      *)
(***************************************************************************)
\* C2: in every interleaving of handlers, the id a POST /user/ returns is
\* not live at the moment it is assigned, and is the one id the POST makes
\* live; so no id is held by two live records.
C2_FreshId ==
    [][\A h \in Handlers :
        (Served(h) /\ IsInsert(req[h]))
            => \E k \in FreeIds(users) :
                  /\ resp'[h].body = to_string(k)
                  /\ Live(users') = Live(users) \cup {k}
                  /\ users'.len = Cardinality(Live(users'))]_vars

\* Both handlers hold the response of a POST, with different ids, both live.
C2_Witness ==
    /\ pc["h1"] = "done" /\ IsInsert(req["h1"])
    /\ pc["h2"] = "done" /\ IsInsert(req["h2"])
    /\ resp["h1"].body = <<"1">>
    /\ resp["h2"].body = <<"0">>
    /\ Live(users) = {0, 1}
    /\ lastChange.op = "insert" /\ lastChange.id = 0

(***************************************************************************)
(* C3                                                                      *)
(***************************************************************************)
\* The response Scenario A expects of its n-th request.
ScenarioAResponse(n) ==
    IF n = 1 THEN ResponseNew(<<"0">>)
    ELSE IF n = 2 THEN ResponseNew(<<"1">>)
    ELSE IF n = 3 THEN response_with_code(OK)
    ELSE IF n = 4 THEN ResponseNew(<<"0">>)
    ELSE ResponseNew(<<"0", ",", "1">>)

\* C3: when the store's last change was a successful DELETE /user/k, with
\* k the lowest live id and no free slot below it, a POST /user/ returns k;
\* and POST, POST, DELETE 0, POST, GET /users answer 0, 1, 200, 0, "0,1".
C3_Recycling ==
    [][\A h \in Handlers :
        /\ (Served(h) /\ IsInsert(req[h])
                /\ lastChange.op = "remove" /\ lastChange.lowest)
              => /\ resp'[h] = ResponseNew(to_string(lastChange.id))
                 /\ lastChange.id \in Live(users')
        /\ (Served(h) /\ scenario' > 0)
              => resp'[h] = ScenarioAResponse(scenario')]_vars

\* Scenario A ran to its end: the recycled POST got 0 and the list is "0,1".
C3_Witness ==
    \E h \in Handlers :
        /\ scenario = 5
        /\ pc[h] = "done"
        /\ resp[h].body = <<"0", ",", "1">>
        /\ lastChange = [op |-> "insert", id |-> 0, lowest |-> FALSE]
        /\ freed = <<>>

(***************************************************************************)
(* C4                                                                      *)
(***************************************************************************)
\* C4: GET, PUT and DELETE on /user/<id> with an id that is not live
\* respond 404 and leave the store as it was; a DELETE of a live id
\* responds 200, and a DELETE of the id the store's last change removed
\* responds 404.
C4_NotFound ==
    [][\A h \in Handlers :
        (Served(h) /\ req[h].method \in {"GET", "PUT", "DELETE"})
            => /\ (CarriesId(req[h]) /\ ~\E k \in Live(users) : HasId(req[h], k))
                        => /\ resp'[h] = response_with_code(NOT_FOUND)
                           /\ users' = users
               /\ \A k \in Live(users) :
                    (HasId(req[h], k) /\ req[h].method = "DELETE")
                        => /\ resp'[h] = response_with_code(OK)
                           /\ k \notin Live(users')
               /\ (req[h].method = "DELETE" /\ lastChange.op = "remove"
                       /\ HasId(req[h], lastChange.id))
                        => resp'[h] = response_with_code(NOT_FOUND)]_vars

\* The second DELETE /user/0 in a row answered 404, another record live.
C4_Witness ==
    \E h \in Handlers :
        /\ pc[h] = "done"
        /\ req[h] = [method |-> "DELETE", path |-> ItemPath(0)]
        /\ resp[h] = response_with_code(NOT_FOUND)
        /\ lastChange.op = "remove" /\ lastChange.id = 0
        /\ Live(users) = {1}

(***************************************************************************)
(* C5                                                                      *)
(***************************************************************************)
\* C5: GET /users responds 200 with exactly the live ids, each once, in
\* ascending order, comma separated (empty when none is live), and leaves
\* the store as it was.
C5_Listing ==
    [][\A h \in Handlers :
        (Served(h) /\ req[h].method = "GET" /\ USERS_PATH(req[h].path))
            => /\ resp'[h] = ResponseNew(IdListText(Ascending(Live(users))))
               /\ users' = users]_vars

\* Ids 0 and 2 are live, 1 was removed, and the list reads "0,2".
C5_Witness ==
    \E h \in Handlers :
        /\ pc[h] = "done"
        /\ req[h].method = "GET" /\ USERS_PATH(req[h].path)
        /\ resp[h] = ResponseNew(<<"0", ",", "2">>)
        /\ Live(users) = {0, 2}
        /\ freed = <<1>>

(***************************************************************************)
(* C6                                                                      *)
(***************************************************************************)
\* C6 as stated: GET, PUT and DELETE on the item path with no id present
\* (/user/) respond 404.
C6_NoIdNotFound ==
    [][\A h \in Handlers :
        (Served(h) /\ req[h].method \in {"GET", "PUT", "DELETE"}
            /\ req[h].path = UserPrefix)
            => resp'[h].status = NOT_FOUND]_vars

\* C6 amended: GET, PUT and DELETE on the item path with no id present
\* (/user/) respond 405, with an empty body, and leave the store as it was.
C6_NoIdNotAllowed ==
    [][\A h \in Handlers :
        (Served(h) /\ req[h].method \in {"GET", "PUT", "DELETE"}
            /\ req[h].path = UserPrefix)
            => /\ resp'[h] = response_with_code(METHOD_NOT_ALLOWED)
               /\ users' = users]_vars

\* DELETE /user/ was answered 405 with a record live.
C6_Witness ==
    \E h \in Handlers :
        /\ pc[h] = "done"
        /\ req[h] = [method |-> "DELETE", path |-> UserPrefix]
        /\ resp[h] = response_with_code(METHOD_NOT_ALLOWED)
        /\ Live(users) = {0}

(***************************************************************************)
(* C7                                                                      *)
(***************************************************************************)
\* C7: POST on an item path that carries an id responds 400, whether or
\* not the id is live, and leaves the store as it was.
C7_PostWithId ==
    [][\A h \in Handlers :
        (Served(h) /\ req[h].method = "POST" /\ CarriesId(req[h]))
            => /\ resp'[h] = response_with_code(BAD_REQUEST)
               /\ users' = users]_vars

\* POST /user/1 was answered 400 with 1 not live and 0 live.
C7_Witness ==
    \E h \in Handlers :
        /\ pc[h] = "done"
        /\ req[h] = [method |-> "POST", path |-> ItemPath(1)]
        /\ resp[h] = response_with_code(BAD_REQUEST)
        /\ Live(users) = {0}
        /\ freed = <<1>>

(***************************************************************************)
(* C8                                                                      *)
(***************************************************************************)
\* C8: POST /user/ responds 200 in every store state, with the new id as
\* its body; exactly that id becomes live and every id live before stays
\* live with its record.
C8_PostFrame ==
    [][\A h \in Handlers :
        (Served(h) /\ IsInsert(req[h]))
            => /\ pc'[h] = "done"
               /\ resp'[h].status = OK
               /\ \E k \in 0..Len(users.entries) :
                     /\ resp'[h].body = to_string(k)
                     /\ Live(users') \ Live(users) = {k}
               /\ \A j \in Live(users) :
                     /\ j \in Live(users')
                     /\ users'.entries[j + 1] = users.entries[j + 1]]_vars

\* A POST answered 0 while 1 and 2 stayed live.
C8_Witness ==
    \E h \in Handlers :
        /\ pc[h] = "done"
        /\ IsInsert(req[h])
        /\ resp[h] = ResponseNew(<<"0">>)
        /\ Live(users) = {0, 1, 2}
        /\ lastChange.op = "insert" /\ lastChange.id = 0

(***************************************************************************)
(* C9                                                                      *)
(***************************************************************************)
\* C9: a verb other than GET on the index path or on /users, and a verb
\* other than GET, PUT, POST and DELETE on the item path, respond 405 and
\* leave the store as it was.
C9_NotAllowed ==
    [][\A h \in Handlers :
        (Served(h)
            /\ \/ (INDEX_PATH(req[h].path) \/ USERS_PATH(req[h].path))
                     /\ req[h].method # "GET"
               \/ IsItem(req[h])
                     /\ req[h].method \notin {"GET", "PUT", "POST", "DELETE"})
            => /\ resp'[h] = response_with_code(METHOD_NOT_ALLOWED)
               /\ users' = users]_vars

\* PATCH /users was answered 405 with records live.
C9_Witness ==
    \E h \in Handlers :
        /\ pc[h] = "done"
        /\ req[h] = [method |-> "PATCH", path |-> UsersText]
        /\ resp[h] = response_with_code(METHOD_NOT_ALLOWED)
        /\ Live(users) = {0, 1}

(***************************************************************************)
(* C10                                                                     *)
(***************************************************************************)
\* C10: every request served has one outcome among 200, 400, 404 and 405,
\* an unrecognized path has 404, and no handler panics (so the mutex is
\* never poisoned).
C10_Totality ==
    /\ ~poisoned
    /\ \A h \in Handlers :
          /\ pc[h] # "panicked"
          /\ pc[h] = "done"
                => /\ resp[h].status \in {OK, BAD_REQUEST, NOT_FOUND, METHOD_NOT_ALLOWED}
                   /\ Unrecognized(req[h]) => resp[h] = response_with_code(NOT_FOUND)
          /\ pc[h] # "done" => resp[h] = NoResponse

\* DELETE of an id that was removed before was answered 404, not a panic.
C10_Witness ==
    \E h \in Handlers :
        /\ pc[h] = "done"
        /\ req[h] = [method |-> "DELETE", path |-> ItemPath(1)]
        /\ resp[h].status = NOT_FOUND
        /\ freed = <<1>>
        /\ ~poisoned

(***************************************************************************)
(* C11                                                                     *)
(***************************************************************************)
IndexText == <<"/", "i", "n", "d", "e", "x">>

\* C11 as stated: GET on each of /, /index and /index.html responds 200
\* with the landing content, whatever the store holds.
C11_IndexPaths ==
    [][\A h \in Handlers :
        (Served(h) /\ req[h].method = "GET"
            /\ req[h].path \in {<<"/">>, IndexText, IndexText \o <<".", "h", "t", "m", "l">>})
            => resp'[h] = ResponseNew(INDEX)]_vars

\* C11 amended: GET on each of /, /index.htm and /index.html responds 200
\* with the landing content and leaves the store as it was; GET /index
\* matches no pattern and responds 404.
C11_IndexHtmPaths ==
    [][\A h \in Handlers :
        (Served(h) /\ req[h].method = "GET")
            => /\ req[h].path \in {<<"/">>, IndexText \o <<".", "h", "t", "m">>,
                                   IndexText \o <<".", "h", "t", "m", "l">>}
                    => /\ resp'[h] = ResponseNew(INDEX)
                       /\ users' = users
               /\ req[h].path = IndexText
                    => /\ resp'[h] = response_with_code(NOT_FOUND)
                       /\ users' = users]_vars

\* GET /index.html was answered with the landing page while a record
\* was live and a slot free.
C11_Witness ==
    \E h \in Handlers :
        /\ pc[h] = "done"
        /\ req[h] = [method |-> "GET", path |-> IndexText \o <<".", "h", "t", "m", "l">>]
        /\ resp[h] = ResponseNew(INDEX)
        /\ Live(users) = {1}
        /\ freed = <<0>>

(***************************************************************************)
(* The PUT and DELETE arms in their two steps under the lock: the lookup   *)
(* (get_mut, contains) and then the write (the assignment, remove).       *)
(***************************************************************************)
\* The arms that look a key up and then write: (PUT, Some(id)) and
\* (DELETE, Some(id)).
LooksUpThenWrites(r) ==
    /\ r.method \in {"PUT", "DELETE"}
    /\ ~INDEX_PATH(r.path) /\ ~USERS_PATH(r.path)
    /\ USER_PATH(r.path).matched
    /\ UserIdOf(USER_PATH(r.path)).some

InLock == {"cs", "hit", "miss"}

\* users.get_mut(id) / users.contains(id): the handler takes the branch.
Lookup(h) ==
    /\ pc[h] = "cs"
    /\ mutex = h
    /\ LooksUpThenWrites(req[h])
    /\ LET id == UserIdOf(USER_PATH(req[h].path)).val IN
       pc' = [pc EXCEPT ![h] = IF (IF req[h].method = "PUT"
                                   THEN SlabGet(users, id).some
                                   ELSE SlabContains(users, id))
                                THEN "hit" ELSE "miss"]
    /\ UNCHANGED <<users, mutex, poisoned, req, resp, freed, lastChange,
                   scenario, hwm, serial>>

\* What the branch taken does to the slab, and its response.
WriteOutcome(branch, r, slab) ==
    LET id == UserIdOf(USER_PATH(r.path)).val IN
    IF branch = "miss" THEN Outcome(response_with_code(NOT_FOUND), slab)
    ELSE IF r.method = "PUT"
    THEN Outcome(response_with_code(OK), SlabSet(slab, id, UserData))
    ELSE LET rem == SlabRemove(slab, id) IN
         IF rem.panic THEN Panic(slab)
         ELSE Outcome(response_with_code(OK), rem.slab)

\* The write step with the guard kept past the end of the block.
WriteKeepsGuard(h) ==
    /\ pc[h] \in {"hit", "miss"}
    /\ mutex = h
    /\ \E out \in {WriteOutcome(pc[h], req[h], users)} :
       /\ users' = out.users
       /\ poisoned' = out.panic
       /\ pc' = [pc EXCEPT ![h] = IF out.panic THEN "panicked" ELSE "done"]
       /\ resp' = [resp EXCEPT ![h] = out.response]
       /\ Observe(users, out.users)
    /\ scenario' = ScenarioStep(req[h])
    /\ UNCHANGED <<req, serial, mutex>>

\* *user = UserData / users.remove(id) and the response; the guard is
\* dropped at the end of the block.
Write(h) ==
    /\ pc[h] \in {"hit", "miss"}
    /\ mutex = h
    /\ \E out \in {WriteOutcome(pc[h], req[h], users)} :
       /\ users' = out.users
       /\ mutex' = None
       /\ poisoned' = out.panic
       /\ pc' = [pc EXCEPT ![h] = IF out.panic THEN "panicked" ELSE "done"]
       /\ resp' = [resp EXCEPT ![h] = out.response]
       /\ Observe(users, out.users)
    /\ scenario' = ScenarioStep(req[h])
    /\ UNCHANGED <<req, serial>>

\* The other branches and arms make at most one call on the slab.
DispatchOther(h) ==
    /\ ~LooksUpThenWrites(req[h])
    /\ Dispatch(h)

StepNext ==
    \/ \E h \in Handlers, r \in ConcRequests : Request(h, r)
    \/ \E h \in Handlers : Lock(h)
    \/ \E h \in Handlers : Lookup(h)
    \/ \E h \in Handlers : Write(h)
    \/ \E h \in Handlers : DispatchOther(h)
    \/ \E h \in Handlers : Return(h)

StepSpec == Init /\ [][StepNext]_vars

\* The move of handler h's position to one of the positions in `to'.
Moves(h, to) == \E v \in to : pc' = [pc EXCEPT ![h] = v]

\* The steps of a handler as moves of its position: in StepSpec the only
\* step that takes pc[h] from "lock" to "cs" is Lock(h), and likewise for
\* the others, and each is enabled exactly when the handler's action is.
LockPc(h) ==
    pc[h] = "lock" /\ mutex = None /\ Moves(h, {"cs", "panicked"})

LookupPc(h) ==
    /\ pc[h] = "cs" /\ mutex = h /\ LooksUpThenWrites(req[h])
    /\ Moves(h, {"hit", "miss"})

WritePc(h) ==
    pc[h] \in {"hit", "miss"} /\ mutex = h /\ Moves(h, {"done", "panicked"})

DispatchOtherPc(h) ==
    /\ pc[h] = "cs" /\ mutex = h /\ ~LooksUpThenWrites(req[h])
    /\ Moves(h, {"done", "panicked"})

ReturnPc(h) == pc[h] = "done" /\ Moves(h, {"idle"})

\* Every handler that can take a step of its code takes it in the end, and
\* a handler waiting for the lock gets it if it is free again and again.
StepFairSpec ==
    /\ StepSpec
    /\ \A h \in Handlers :
          /\ SF_pc(LockPc(h))
          /\ WF_pc(LookupPc(h))
          /\ WF_pc(WritePc(h))
          /\ WF_pc(DispatchOtherPc(h))
          /\ WF_pc(ReturnPc(h))

(***************************************************************************)
(* C12                                                                     *)
(***************************************************************************)
\* The id of a request that carries one.
IdOf(r) == UserIdOf(USER_PATH(r.path)).val

\* At most one handler is under the lock, it is the one holding the guard,
\* and what its lookup found is still so when it writes.
OneInLock ==
    /\ Cardinality({h \in Handlers : pc[h] \in InLock}) <= 1
    /\ \A h \in Handlers :
          /\ pc[h] \in InLock <=> mutex = h
          /\ pc[h] = "hit" => IdOf(req[h]) \in Live(users)
          /\ pc[h] = "miss" => IdOf(req[h]) \notin Live(users)

\* C12: with handlers running concurrently on the one store, at most one
\* is in the critical section at any instant, and the lookup and the write
\* of a request (contains then remove, get_mut then the assignment) run in
\* one critical section that no other handler's step on the store enters.
C12_MutualExclusion ==
    /\ []OneInLock
    /\ [][\A h \in Handlers :
            (pc[h] \in InLock /\ pc'[h] \in InLock)
                => /\ users' = users
                   /\ mutex' = h]_vars

\* A DELETE /user/0 found the id and is about to remove it, while the
\* other handler waits for the lock with a DELETE /user/0 of its own.
C12_Witness ==
    /\ pc["h1"] = "hit"
    /\ req["h1"] = [method |-> "DELETE", path |-> ItemPath(0)]
    /\ pc["h2"] = "lock"
    /\ req["h2"] = [method |-> "DELETE", path |-> ItemPath(0)]
    /\ mutex = "h1"

(***************************************************************************)
(* C13                                                                     *)
(***************************************************************************)
\* C13: for concurrent requests, each response, and the store whenever no
\* handler is under the lock, equal those of the same requests run whole,
\* one at a time, in the order in which they got the lock.
C13_Linearizable ==
    /\ \A h \in Handlers :
          /\ pc[h] = "done" => resp[h] = serial.resp[h]
          /\ pc[h] # "panicked"
    /\ mutex = None => users = serial.users

\* Two DELETE /user/0 ran concurrently: the first to lock got 200, the
\* other 404, as in the serial run; the store is the serial run's.
C13_Witness ==
    /\ pc["h1"] = "done" /\ pc["h2"] = "done"
    /\ req["h1"] = [method |-> "DELETE", path |-> ItemPath(0)]
    /\ req["h2"] = [method |-> "DELETE", path |-> ItemPath(0)]
    /\ resp["h1"] = response_with_code(NOT_FOUND)
    /\ resp["h2"] = response_with_code(OK)
    /\ serial.resp["h2"] = response_with_code(OK)
    /\ users = serial.users
    /\ Live(users) = {1}

(***************************************************************************)
(* C14                                                                     *)
(***************************************************************************)
\* A step of some handler's code (not the arrival of a request).
Progress ==
    \E h \in Handlers :
        Lock(h) \/ Lookup(h) \/ Write(h) \/ DispatchOther(h) \/ Return(h)

C15_IdSpaceBound ==
    /\ [](/\ \A k \in Live(users) : k < hwm
          /\ Len(users.entries) <= hwm
          /\ Cardinality(Live(users)) <= hwm)
    /\ [][\A h \in Handlers :
            (Served(h) /\ IsInsert(req[h]))
                => \E k \in 0..(hwm' - 1) : resp'[h].body = to_string(k)]_vars

\* After two records were live at once and both were removed, a POST
\* returned 1: one live record, and the id is below the mark of 2.
C15_Witness ==
    \E h \in Handlers :
        /\ pc[h] = "done"
        /\ IsInsert(req[h])
        /\ resp[h] = ResponseNew(<<"1">>)
        /\ Live(users) = {1}
        /\ hwm = 2

(***************************************************************************)
(* C16                                                                     *)
(***************************************************************************)
\* The ids of a sequence.
Range(s) == {s[i] : i \in DOMAIN s}

RECURSIVE PostN(_, _)
\* The store after n more POST /user/ and no removal.
PostN(slab, n) ==
    IF n = 0 THEN slab ELSE PostN(PostUser(slab).users, n - 1)

\* C16: a POST /user/ takes a never-used index only when no freed slot
\* exists: while a removed id is free the insert returns one of the freed
\* ids, which leaves one freed id fewer, and every freed id is live again
\* after as many further inserts as there are freed ids.
C16_ReuseBeforeGrowth ==
    /\ [](/\ Range(freed) = (0..(Len(users.entries) - 1)) \ Live(users)
          /\ Range(freed) \subseteq Live(PostN(users, Len(freed)))
          /\ Len(PostN(users, Len(freed)).entries) = Len(users.entries))
    /\ [][\A h \in Handlers :
            (Served(h) /\ IsInsert(req[h]))
                => \E k \in 0..Len(users.entries) :
                      /\ resp'[h].body = to_string(k)
                      /\ k \in Live(users')
                      /\ IF freed # <<>>
                         THEN /\ k \in Range(freed)
                              /\ Len(users'.entries) = Len(users.entries)
                              /\ Len(freed') = Len(freed) - 1
                              /\ Range(freed') = Range(freed) \ {k}
                         ELSE /\ k = Len(users.entries)
                              /\ Len(users'.entries) = k + 1]_vars

\* Ids 0 and 1 were freed, in this order, while 2 stayed live; a POST
\* returned the freed id 1 and the freed id 0 is still free.
C16_Witness ==
    \E h \in Handlers :
        /\ pc[h] = "done"
        /\ IsInsert(req[h])
        /\ resp[h] = ResponseNew(<<"1">>)
        /\ Live(users) = {1, 2}
        /\ freed = <<0>>

(***************************************************************************)
(* C17                                                                     *)
(***************************************************************************)
\* C17: a DELETE /user/<id> answered 200 removes exactly that id from the
\* live ids and makes it free, and leaves every other live id and its
\* record as they were; a PUT /user/<id> answered 200 leaves the live ids,
\* the free slots and the listing of GET /users as they were.
C17_WriteFrame ==
    [][\A h \in Handlers :
        /\ (Served(h) /\ req[h].method = "DELETE" /\ resp'[h].status = OK)
              => \E k \in Live(users) :
                    /\ HasId(req[h], k)
                    /\ Live(users') = Live(users) \ {k}
                    /\ k \in FreeIds(users')
                    /\ k \in Range(freed')
                    /\ Len(users'.entries) = Len(users.entries)
                    /\ \A j \in Live(users') :
                          users'.entries[j + 1] = users.entries[j + 1]
        /\ (Served(h) /\ req[h].method = "PUT" /\ resp'[h].status = OK)
              => /\ \E k \in Live(users) : HasId(req[h], k)
                 /\ Live(users') = Live(users)
                 /\ FreeIds(users') = FreeIds(users)
                 /\ freed' = freed
                 /\ PostUser(users').response = PostUser(users).response
                 /\ ListBody(users') = ListBody(users)]_vars

\* Of the records 0, 1 and 2 a DELETE took 1 out and left 0 and 2; then a
\* PUT /user/0 was answered 200 and the slot of 1 is still the free one.
C17_Witness ==
    \E h \in Handlers :
        /\ pc[h] = "done"
        /\ req[h] = [method |-> "PUT", path |-> ItemPath(0)]
        /\ resp[h] = response_with_code(OK)
        /\ lastChange.op = "remove" /\ lastChange.id = 1
        /\ Live(users) = {0, 2}
        /\ freed = <<1>>
        /\ ListBody(users) = <<"0", ",", "2">>

(***************************************************************************)
(* C18                                                                     *)
(***************************************************************************)
\* C18: a GET, on the index path, on /users, on /user/<id> with a live or
\* a non-live id, or on an unrecognized path, leaves the live records and
\* the free slots exactly as they were, so the next POST /user/ returns
\* the id it would have returned without the GET.
C18_GetFrame ==
    [][\A h \in Handlers :
        (Served(h) /\ req[h].method = "GET")
            => /\ pc'[h] = "done"
               /\ users' = users
               /\ freed' = freed
               /\ FreeIds(users') = FreeIds(users)
               /\ PostUser(users').response = PostUser(users).response]_vars

\* A GET /user/0 answered with the record while slot 1 was free: 0 is
\* still live and 1 is still the slot the next POST takes.
C18_Witness ==
    \E h \in Handlers :
        /\ pc[h] = "done"
        /\ req[h] = [method |-> "GET", path |-> ItemPath(0)]
        /\ resp[h] = ResponseNew(UserDataText)
        /\ Live(users) = {0}
        /\ freed = <<1>>
        /\ PostUser(users).response = ResponseNew(<<"1">>)

(***************************************************************************)
(* C19                                                                     *)
(***************************************************************************)
\* The text after "/user/", less one closing "/".
IdText(path) ==
    LET rest == SubSeq(path, Len(UserPrefix) + 1, Len(path)) IN
    IF rest # <<>> /\ rest[Len(rest)] = "/"
    THEN SubSeq(rest, 1, Len(rest) - 1)
    ELSE rest

\* A path under "/user/" whose id text is there and is no u64.
Malformed(path) ==
    /\ HasPrefix(path, UserPrefix)
    /\ IdText(path) # <<>>
    /\ ~parse_user_id(IdText(path)).some

\* A decimal digit of any script.
DecimalDigit(c) == c \in Range(AsciiDigits) \cup {ArabicIndicThree}

OnlyDigits(t) == \A i \in 1..Len(t) : DecimalDigit(t[i])

\* The request is answered as the same verb on /user/ is in this store.
AsOnUserPrefix(h) ==
    LET out == microservice_handler(req[h].method, UserPrefix, users) IN
    /\ ~out.panic
    /\ resp'[h] = out.response
    /\ users' = out.users
    /\ IF req[h].method = "POST"
       THEN /\ resp'[h].status = OK
            /\ Cardinality(Live(users')) = Cardinality(Live(users)) + 1
       ELSE /\ resp'[h] = response_with_code(METHOD_NOT_ALLOWED)
            /\ users' = users

\* C19 as stated: a path whose id text is malformed, be it text that is
\* not digits or digits too large for the id type, is an item action with
\* absent id and is answered, for every verb, as that verb on /user/.
C19_MalformedAsAbsent ==
    [][\A h \in Handlers :
        (Served(h) /\ Malformed(req[h].path)) => AsOnUserPrefix(h)]_vars

\* C19, amended: id text made of digits only that is no u64 (too large,
\* or digits of another script) is an item action with absent id and is
\* answered, for every verb, as that verb on /user/; id text with a
\* character that is no digit matches no pattern and is answered 404,
\* the store left as it was.
C19_UnparsedDigitsAsAbsent ==
    [][\A h \in Handlers :
        (Served(h) /\ Malformed(req[h].path))
            => IF OnlyDigits(IdText(req[h].path))
               THEN AsOnUserPrefix(h)
               ELSE /\ resp'[h] = response_with_code(NOT_FOUND)
                    /\ users' = users]_vars

\* A POST on /user/ followed by twenty-one digits was answered 200 with a
\* new id, 1, as a POST /user/ is.
C19_Witness ==
    \E h \in Handlers :
        /\ pc[h] = "done"
        /\ req[h] = [method |-> "POST", path |-> UserPrefix \o TooManyDigits]
        /\ resp[h] = ResponseNew(<<"1">>)
        /\ Live(users) = {0, 1}

====
